---- MODULE Spec2Model ----
(***************************************************************************)
(* Model of filehashcache.engines.files.FileHashCache: the path mapper     *)
(* (_encode_filepath / _decode_filepath) and the mapping operations over a *)
(* directory tree.  Strings are sequences of one-character strings; a path *)
(* is such a string, interpreted by the os.path operators below.           *)
(***************************************************************************)
EXTENDS Integers, Sequences, FiniteSets, Bags, TLC

VARIABLES
    digest,   \* path mapper: the digest string handed to _encode_filepath
    encPath,  \* path mapper: the path string it returned
    decKey,   \* path mapper: what _decode_filepath made of that path
    ppc,      \* path mapper: position in encode-then-decode
    dirs,     \* the directories on disk, each a sequence of components
    files,    \* the regular files on disk: components -> content bytes
    cfg,      \* codec flags fixed at construction: [compress, b64]
    last,     \* the last completed mapping operation and its outcome
    shadow,   \* for each key, the value a plain mapping would hold (or NoValue)
    procs     \* concurrent callers: each one's operation and position in it

pathVars == <<digest, encPath, decKey, ppc>>

fsVars == <<dirs, files>>

engineVars == <<dirs, files, cfg, last, shadow>>

vars == <<digest, encPath, decKey, ppc, dirs, files, cfg, last, shadow, procs>>

(* ------------------------------ bounds --------------------------------- *)

\* Synthetic digests of length 2..MaxShortLen are enumerated exhaustively.
MaxShortLen == 4

\* Long synthetic digests are generated from seeds 0..MaxSeed.
MaxSeed == 1

\* Cache keys are 1..NumKeys.
NumKeys == 3

\* Cached values are 0..MaxValue.
MaxValue == 1

(* ------------------------- program constants --------------------------- *)

\* key[:2]
ShardLen == 2

\* range(0, len(key[2:]), 255)
SegLen == 255

SEP == "/"

\* self.path, the absolute root directory "/r" fixed at construction.
SelfPath == <<"/", "r">>

(* ------------------------------ strings -------------------------------- *)

\* F applied to the value of e: e is evaluated once, and F sees the value.
Eval(e, F(_)) == CHOOSE r \in {F(x) : x \in {e}} : TRUE

Min(a, b) == IF a <= b THEN a ELSE b

\* s[:n]
Take(s, n) == SubSeq(s, 1, Min(n, Len(s)))

\* s[n:]
Drop(s, n) == SubSeq(s, n + 1, Len(s))

\* Chunks with slices one character too long: s[i:i+256].
ChunksOverlong(s) ==
    Eval(s, LAMBDA t :
        [j \in 1..((Len(t) + SegLen - 1) \div SegLen) |->
            SubSeq(t, (j - 1) * SegLen + 1, Min(j * SegLen + 1, Len(t)))])

\* [s[i:i+255] for i in range(0, len(s), 255)]
Chunks(s) ==
    Eval(s, LAMBDA t :
        [j \in 1..((Len(t) + SegLen - 1) \div SegLen) |->
            SubSeq(t, (j - 1) * SegLen + 1, Min(j * SegLen, Len(t)))])

\* '/'.join(parts)
RECURSIVE JoinSlash(_)
JoinSlash(parts) ==
    Eval(parts, LAMBDA ps :
        IF ps = <<>> THEN <<>>
        ELSE IF Len(ps) = 1 THEN ps[1]
        ELSE ps[1] \o <<SEP>> \o JoinSlash(Tail(ps)))

\* The position of the k-th separator among the separator positions Sl of a
\* string of length n; 0 before the first and n + 1 after the last.
SepPos(Sl, k, n) ==
    IF k = 0 THEN 0
    ELSE IF k = Cardinality(Sl) + 1 THEN n + 1
    ELSE CHOOSE i \in Sl : Cardinality({x \in Sl : x < i}) = k - 1

\* s.split('/')
SplitSlash(s) ==
    Eval(s, LAMBDA t :
        Eval({i \in 1..Len(t) : t[i] = SEP}, LAMBDA Sl :
            [k \in 1..(Cardinality(Sl) + 1) |->
                SubSeq(t, SepPos(Sl, k - 1, Len(t)) + 1, SepPos(Sl, k, Len(t)) - 1)]))

\* s.replace('/', '')
StripSlashes(s) == SelectSeq(s, LAMBDA c : c # SEP)

(* ------------------------------ os.path -------------------------------- *)

\* os.path.join(a, b): an absolute b discards a.
OsPathJoin(a, b) ==
    Eval(b, LAMBDA t :
        IF t # <<>> /\ t[1] = SEP THEN t
        ELSE IF a = <<>> \/ a[Len(a)] = SEP THEN a \o t
        ELSE a \o <<SEP>> \o t)

\* The components the kernel walks: empty components are skipped.
Parts(p) == SelectSeq(SplitSlash(p), LAMBDA c : c # <<>>)

RECURSIVE NormFold(_, _)
NormFold(comps, acc) ==
    Eval(comps, LAMBDA cs : Eval(acc, LAMBDA ac :
        IF cs = <<>> THEN ac
        ELSE IF Head(cs) = <<".", ".">>
             THEN NormFold(Tail(cs),
                           IF ac = <<>> THEN ac ELSE SubSeq(ac, 1, Len(ac) - 1))
             ELSE NormFold(Tail(cs), Append(ac, Head(cs)))))

\* The components of os.path.abspath(p) for an absolute p: '' and '.' are
\* dropped and '..' removes the component before it.
NormParts(p) ==
    NormFold(SelectSeq(SplitSlash(p), LAMBDA c : c # <<>> /\ c # <<".">>), <<>>)

\* The length of the longest common prefix of two component lists.
CommonLen(a, b) ==
    Eval(a, LAMBDA x : Eval(b, LAMBDA y :
        Eval({k \in 0..Min(Len(x), Len(y)) : SubSeq(x, 1, k) = SubSeq(y, 1, k)},
             LAMBDA ks : CHOOSE k \in ks : \A j \in ks : j <= k)))

\* os.path.relpath(path, start)
RelPath(path, start) ==
    Eval(NormParts(start), LAMBDA sl : Eval(NormParts(path), LAMBDA pl :
        Eval(CommonLen(sl, pl), LAMBDA i :
            Eval([k \in 1..(Len(sl) - i) |-> <<".", ".">>] \o SubSeq(pl, i + 1, Len(pl)),
                 LAMBDA rel : IF rel = <<>> THEN <<".">> ELSE JoinSlash(rel)))))

\* The length of s[:i].rstrip('/'), or i when s[:i] is all separators.
RECURSIVE RStripLen(_, _, _)
RStripLen(s, i, j) ==
    IF j = 0 THEN i
    ELSE IF s[j] # SEP THEN j
    ELSE RStripLen(s, i, j - 1)

\* os.path.dirname(p)
DirName(p) ==
    Eval(p, LAMBDA s :
        Eval({i \in 1..Len(s) : s[i] = SEP}, LAMBDA Sl :
            Eval(IF Sl = {} THEN 0 ELSE CHOOSE x \in Sl : \A y \in Sl : y <= x,
                 LAMBDA i : SubSeq(s, 1, RStripLen(s, i, i)))))

(* ---------------------------- path mapper ------------------------------ *)

\* _encode_filepath after the key encoder: d is the digest string.
EncodeDigestPath(d) ==
    Eval(d, LAMBDA key :
        Eval(JoinSlash(Chunks(Drop(key, ShardLen))), LAMBDA segmented_key :
            OsPathJoin(SelfPath, Take(key, ShardLen) \o <<SEP>> \o segmented_key)))

\* _decode_filepath keeping only the file name of the path.
DecodeFilepathBasename(filepath) ==
    Eval(SplitSlash(filepath), LAMBDA comps : comps[Len(comps)])

\* _decode_filepath
DecodeFilepath(filepath) ==
    Eval(RelPath(filepath, SelfPath), LAMBDA relative_path :
        StripSlashes(relative_path))

(* ------------------------- external collaborators ---------------------- *)

Keys == 1..NumKeys

Values == 0..MaxValue

NoKey == 0

NoValue == 0 - 1

\* The key encoder's fixed digest length: a shard and two segments.
DigestLen == ShardLen + SegLen + 2

Bit(n, b) == (n \div (2 ^ b)) % 2

HashChar(b) == IF b = 0 THEN "a" ELSE "b"

\* _encode_key(key).decode(): deterministic, fixed length, over HashAlphabet,
\* and free of collisions on Keys.  Keys 1 and 2 share the shard and the
\* first segment, key 3 shares only the shard with them, key 5 onwards
\* live in another shard.
EncodeKey(k) ==
    LET n == k - 1
    IN <<HashChar(Bit(n, 3)), HashChar(Bit(n, 2))>>
       \o [i \in 1..SegLen |-> HashChar(Bit(n, 1))]
       \o <<"a", HashChar(Bit(n, 0))>>

Configs == [compress : BOOLEAN, b64 : BOOLEAN]

\* Stored bytes: a raw byte <<"r", b>> or a text-safe character <<"t", b>>.
Raw(b) == <<"r", b>>

\* The serialisation of a value: a header, one byte per unit, a STOP byte.
Serialize(v) == <<Raw("P")>> \o [i \in 1..v |-> Raw("x")] \o <<Raw(".")>>

\* Compression frames the stream with a header and a checksum.
Compress(bs) == <<Raw("z")>> \o bs \o <<Raw("k")>>

\* The text-safe encoding maps every byte to a text character.
B64Encode(bs) == [i \in 1..Len(bs) |-> <<"t", bs[i][2]>>]

B64Decode(bs) == [i \in 1..Len(bs) |-> Raw(bs[i][2])]

\* _encode_value(value)
EncodeValue(c, v) ==
    LET s == Serialize(v)
        z == IF c.compress THEN Compress(s) ELSE s
    IN IF c.b64 THEN B64Encode(z) ELSE z

DecodeFailed == [err |-> "DecodeFailed", out |-> NoValue]

IsText(bs) == \A i \in 1..Len(bs) : bs[i][1] = "t"

IsRaw(bs) == \A i \in 1..Len(bs) : bs[i][1] = "r"

Unpickle(bs) ==
    IF /\ Len(bs) >= 2
       /\ bs[1] = Raw("P")
       /\ bs[Len(bs)] = Raw(".")
       /\ \A i \in 2..(Len(bs) - 1) : bs[i] = Raw("x")
    THEN [err |-> "ok", out |-> Len(bs) - 2]
    ELSE DecodeFailed

Decompress(c, bs) ==
    IF ~c.compress THEN Unpickle(bs)
    ELSE IF Len(bs) >= 2 /\ bs[1] = Raw("z") /\ bs[Len(bs)] = Raw("k")
         THEN Unpickle(SubSeq(bs, 2, Len(bs) - 1))
         ELSE DecodeFailed

\* _decode_value(bytes): the value, or DecodeFailed on bytes that are no
\* encoding under the configuration.
DecodeValue(c, bs) ==
    IF c.b64
    THEN IF IsText(bs) THEN Decompress(c, B64Decode(bs)) ELSE DecodeFailed
    ELSE IF IsRaw(bs) THEN Decompress(c, bs) ELSE DecodeFailed

(* ----------------------------- file system ----------------------------- *)

FsRoot == <<>>

IsPrefix(a, b) == Len(a) <= Len(b) /\ SubSeq(b, 1, Len(a)) = a

EndsWithSep(p) == p # <<>> /\ p[Len(p)] = SEP

RootParts == Parts(SelfPath)

\* _encode_filepath(key)
EncodeFilepath(k) == EncodeDigestPath(EncodeKey(k))

\* The path strings the engine hands to the operating system for the keys,
\* worked out once: the cache paths and the directory names above them.
FilepathTable == [k \in Keys |-> EncodeFilepath(k)]

Filepath(k) == FilepathTable[k]

KnownPaths ==
    LET fp == {FilepathTable[k] : k \in Keys}
        d1 == {DirName(p) : p \in fp}
        d2 == {DirName(p) : p \in d1}
        d3 == {DirName(p) : p \in d2}
    IN fp \cup d1 \cup d2 \cup d3 \cup {SelfPath}

PartsTable == [p \in KnownPaths |-> Parts(p)]

DirNameTable == [p \in KnownPaths |-> DirName(p)]

DecodeTable == [p \in KnownPaths |-> DecodeFilepath(p)]

\* Parts(p), looked up when p is a known path
PartsOf(p) == Eval(p, LAMBDA s : IF s \in KnownPaths THEN PartsTable[s] ELSE Parts(s))

\* os.path.dirname(p), looked up when p is a known path
DirOf(p) == Eval(p, LAMBDA s : IF s \in KnownPaths THEN DirNameTable[s] ELSE DirName(s))

\* _decode_filepath(p), looked up when p is a known path
DecodeOf(p) ==
    Eval(p, LAMBDA s : IF s \in KnownPaths THEN DecodeTable[s] ELSE DecodeFilepath(s))

NoFiles == [q \in {} |-> <<>>]

\* The string os.walk builds for an entry: os.path.join(root, name).
PathStr(parts) == <<SEP>> \o JoinSlash(parts)

\* os.path.isdir
IsDir(D, p) == PartsOf(p) \in D

IsFile(F, p) == Eval(p, LAMBDA s : ~EndsWithSep(s) /\ PartsOf(s) \in DOMAIN F)

\* os.path.exists
Exists(D, F, p) == Eval(p, LAMBDA s : IsDir(D, s) \/ IsFile(F, s))

\* os.listdir of the directory with components P
Children(D, F, P) ==
    Eval(P, LAMBDA R :
        {q \in D \cup DOMAIN F : Len(q) = Len(R) + 1 /\ IsPrefix(R, q)})

Prefixes(P) == Eval(P, LAMBDA R : {SubSeq(R, 1, n) : n \in 0..Len(R)})

\* os.makedirs(p, exist_ok=True), run without interference: every missing
\* directory on the way is created; a file in the way is an error.
MakeDirs(D, F, p) ==
    Eval(Prefixes(PartsOf(p)), LAMBDA Ps :
        IF \E q \in Ps : q \in DOMAIN F
        THEN [err |-> "FileExistsError", dirs |-> D]
        ELSE [err |-> "ok", dirs |-> D \cup Ps])

\* WriteFile opening with 'ab': the bytes are appended to what is there.
WriteFileAppend(D, F, p, bs) ==
    Eval(p, LAMBDA s : Eval(PartsOf(s), LAMBDA P : Eval(bs, LAMBDA data :
        IF EndsWithSep(s) \/ P \in D
        THEN [err |-> "IsADirectoryError", files |-> F]
        ELSE IF P = <<>> \/ SubSeq(P, 1, Len(P) - 1) \notin D
        THEN [err |-> "FileNotFoundError", files |-> F]
        ELSE [err |-> "ok",
              files |-> [q \in DOMAIN F \cup {P} |->
                            IF q # P THEN F[q]
                            ELSE IF P \in DOMAIN F THEN F[P] \o data ELSE data]])))

\* WriteFile with mode 'r+b' in place of 'wb': the bytes go to offset 0 and
\* what the file held beyond them stays.
WriteFileOverlay(D, F, p, bs) ==
    Eval(p, LAMBDA s : Eval(PartsOf(s), LAMBDA P : Eval(bs, LAMBDA data :
        IF EndsWithSep(s) \/ P \in D
        THEN [err |-> "IsADirectoryError", files |-> F]
        ELSE IF P = <<>> \/ SubSeq(P, 1, Len(P) - 1) \notin D
        THEN [err |-> "FileNotFoundError", files |-> F]
        ELSE [err |-> "ok",
              files |-> [q \in DOMAIN F \cup {P} |->
                            IF q # P THEN F[q]
                            ELSE IF P \in DOMAIN F
                                 THEN data \o SubSeq(F[P], Len(data) + 1, Len(F[P]))
                                 ELSE data]])))

\* open(p, 'wb'); f.write(bs); close
WriteFile(D, F, p, bs) ==
    Eval(p, LAMBDA s : Eval(PartsOf(s), LAMBDA P : Eval(bs, LAMBDA data :
        IF EndsWithSep(s) \/ P \in D
        THEN [err |-> "IsADirectoryError", files |-> F]
        ELSE IF P = <<>> \/ SubSeq(P, 1, Len(P) - 1) \notin D
        THEN [err |-> "FileNotFoundError", files |-> F]
        ELSE [err |-> "ok",
              files |-> [q \in DOMAIN F \cup {P} |-> IF q = P THEN data ELSE F[q]]])))

\* RemoveFile that reports success and leaves the file in place.
RemoveFileKeeps(D, F, p) ==
    Eval(p, LAMBDA s : Eval(PartsOf(s), LAMBDA P :
        IF P \in D THEN [err |-> "IsADirectoryError", files |-> F]
        ELSE IF EndsWithSep(s) \/ P \notin DOMAIN F
        THEN [err |-> "FileNotFoundError", files |-> F]
        ELSE [err |-> "ok", files |-> F]))

\* RemoveFile that removes every file of the directory p is in.
RemoveFileSiblings(D, F, p) ==
    Eval(p, LAMBDA s : Eval(PartsOf(s), LAMBDA P :
        IF P \in D THEN [err |-> "IsADirectoryError", files |-> F]
        ELSE IF EndsWithSep(s) \/ P \notin DOMAIN F
        THEN [err |-> "FileNotFoundError", files |-> F]
        ELSE [err |-> "ok",
              files |-> [q \in {f \in DOMAIN F :
                                  SubSeq(f, 1, Len(f) - 1) # SubSeq(P, 1, Len(P) - 1)}
                         |-> F[q]]]))

\* os.remove(p)
RemoveFile(D, F, p) ==
    Eval(p, LAMBDA s : Eval(PartsOf(s), LAMBDA P :
        IF P \in D THEN [err |-> "IsADirectoryError", files |-> F]
        ELSE IF EndsWithSep(s) \/ P \notin DOMAIN F
        THEN [err |-> "FileNotFoundError", files |-> F]
        ELSE [err |-> "ok", files |-> [q \in DOMAIN F \ {P} |-> F[q]]]))

(* ------------------------- mapping operations -------------------------- *)

\* __setitem__
SetItemAt(D, F, fp, bs) ==
    Eval(fp, LAMBDA filepath :
        Eval(MakeDirs(D, F, DirOf(filepath)), LAMBDA mk :
            IF mk.err # "ok" THEN [err |-> mk.err, dirs |-> D, files |-> F]
            ELSE Eval(WriteFile(mk.dirs, F, filepath, bs), LAMBDA wr :
                    [err |-> wr.err, dirs |-> mk.dirs, files |-> wr.files])))

\* __setitem__ of a key: filepath = self._encode_filepath(key)
SetItemOutcome(D, F, c, k, v) == SetItemAt(D, F, Filepath(k), EncodeValue(c, v))

\* __getitem__ without the existence check: a missing file reads as no value.
GetItemOutcomeDefault(D, F, c, k) ==
    Eval(Filepath(k), LAMBDA filepath :
        IF ~IsFile(F, filepath) THEN [err |-> "ok", out |-> NoValue]
        ELSE DecodeValue(c, F[PartsOf(filepath)]))

\* __getitem__, from the existence check on, for the path fp
GetItemAt(D, F, c, fp) ==
    Eval(fp, LAMBDA filepath :
        IF ~Exists(D, F, filepath) THEN [err |-> "KeyError", out |-> NoValue]
        ELSE IF ~IsFile(F, filepath) THEN [err |-> "IsADirectoryError", out |-> NoValue]
        ELSE DecodeValue(c, F[PartsOf(filepath)]))

\* __getitem__ of a key: filepath = self._encode_filepath(key)
GetItemOutcome(D, F, c, k) == GetItemAt(D, F, c, Filepath(k))

\* __contains__
Contains(D, F, k) == Exists(D, F, Filepath(k))

\* __delitem__ without the pruning loop: no directory is removed.
PruneDirsNever(D, F, dir_path) == [err |-> "ok", dirs |-> D]

\* PruneDirs without the loop: only the file's own directory is removed.
PruneDirsOnce(D, F, dir_path) ==
    Eval(D, LAMBDA Ds : Eval(dir_path, LAMBDA dp : Eval(PartsOf(dp), LAMBDA P :
        IF dp = SelfPath THEN [err |-> "ok", dirs |-> Ds]
        ELSE IF P \notin Ds THEN [err |-> "FileNotFoundError", dirs |-> Ds]
        ELSE IF Children(Ds, F, P) = {}
             THEN [err |-> "ok", dirs |-> Ds \ {P}]
             ELSE [err |-> "ok", dirs |-> Ds])))

\* The while loop of __delitem__: remove empty directories from dir_path
\* upwards, stopping at the first non-empty one or at self.path.
RECURSIVE PruneDirs(_, _, _)
PruneDirs(D, F, dir_path) ==
    Eval(D, LAMBDA Ds : Eval(dir_path, LAMBDA dp : Eval(PartsOf(dp), LAMBDA P :
        IF dp = SelfPath THEN [err |-> "ok", dirs |-> Ds]
        ELSE IF P \notin Ds THEN [err |-> "FileNotFoundError", dirs |-> Ds]
        ELSE IF Children(Ds, F, P) = {}
             THEN PruneDirs(Ds \ {P}, F, DirOf(dp))
             ELSE [err |-> "ok", dirs |-> Ds])))

\* __delitem__ without the existence check: a missing file is passed over.
DelItemOutcomeSilent(D, F, k) ==
    Eval(Filepath(k), LAMBDA filepath :
        IF ~Exists(D, F, filepath) THEN [err |-> "ok", dirs |-> D, files |-> F]
        ELSE Eval(RemoveFile(D, F, filepath), LAMBDA rm :
            IF rm.err # "ok" THEN [err |-> rm.err, dirs |-> D, files |-> F]
            ELSE Eval(PruneDirs(D, rm.files, DirOf(filepath)), LAMBDA pr :
                    [err |-> pr.err, dirs |-> pr.dirs, files |-> rm.files])))

\* __delitem__
DelItemOutcome(D, F, k) ==
    Eval(Filepath(k), LAMBDA filepath :
        IF ~Exists(D, F, filepath) THEN [err |-> "KeyError", dirs |-> D, files |-> F]
        ELSE Eval(RemoveFile(D, F, filepath), LAMBDA rm :
            IF rm.err # "ok" THEN [err |-> rm.err, dirs |-> D, files |-> F]
            ELSE Eval(PruneDirs(D, rm.files, DirOf(filepath)), LAMBDA pr :
                    [err |-> pr.err, dirs |-> pr.dirs, files |-> rm.files])))

\* clear that unlinks the files under the root and leaves the directories.
ClearOutcomeFilesOnly(D, F) ==
    Eval([q \in {x \in DOMAIN F : ~IsPrefix(RootParts, x)} |-> F[q]], LAMBDA keptFiles :
        [err |-> "ok", dirs |-> D, files |-> keptFiles])

\* clear: shutil.rmtree(self.path, ignore_errors=True), then
\* os.makedirs(self.path, exist_ok=True)
ClearOutcome(D, F) ==
    Eval({q \in D : ~IsPrefix(RootParts, q)}, LAMBDA keptDirs :
        Eval([q \in {x \in DOMAIN F : ~IsPrefix(RootParts, x)} |-> F[q]], LAMBDA keptFiles :
            Eval(MakeDirs(keptDirs, keptFiles, SelfPath), LAMBDA mk :
                [err |-> mk.err, dirs |-> mk.dirs, files |-> keptFiles])))

\* The regular files os.walk(self.path) comes across.
WalkFiles(D, F) ==
    IF RootParts \notin D THEN {}
    ELSE {q \in DOMAIN F : IsPrefix(RootParts, q) /\ q # RootParts}

\* _keys: the yielded strings, as a bag: how often each is yielded.
KeysYield(D, F) ==
    Eval([q \in WalkFiles(D, F) |-> DecodeOf(PathStr(q))], LAMBDA y :
        [d \in {y[q] : q \in DOMAIN y} |-> Cardinality({q \in DOMAIN y : y[q] = d})])

\* size(): the number of regular files under the root.
Size(D, F) == Cardinality(WalkFiles(D, F))

(* ------------------- specification of the engine ---------------------- *)

\* old: the value the mapping held for the key when a set started.
\* had: whether an entry existed at the key's path (for clear: anywhere
\* under the root) when the operation started.
NoOp ==
    [op |-> "none", key |-> NoKey, val |-> NoValue, old |-> NoValue, had |-> FALSE,
     err |-> "ok", out |-> NoValue]

Procs == {1, 2}

IdleProc ==
    [pc |-> "idle", op |-> "none", key |-> NoKey, val |-> NoValue,
     cur |-> <<>>, todo |-> <<>>, fd |-> FALSE, err |-> "ok", walk |-> <<>>]

NoProcs == [p \in Procs |-> IdleProc]

PathIdle ==
    /\ digest = <<>>
    /\ encPath = <<>>
    /\ decKey = <<>>
    /\ ppc = "idle"

\* After construction: the root directory exists and is empty.
Init ==
    /\ PathIdle
    /\ dirs = Prefixes(RootParts)
    /\ files = NoFiles
    /\ cfg \in Configs
    /\ last = NoOp
    /\ shadow = [k \in Keys |-> NoValue]
    /\ procs = NoProcs

SetItem(k, v) ==
    \E r \in {SetItemOutcome(dirs, files, cfg, k, v)} :
        /\ dirs' = r.dirs
        /\ files' = r.files
        /\ last' = [op |-> "set", key |-> k, val |-> v, old |-> shadow[k],
                    had |-> Contains(dirs, files, k),
                    err |-> r.err, out |-> NoValue]
        /\ shadow' = IF r.err = "ok" THEN [shadow EXCEPT ![k] = v] ELSE shadow
        /\ UNCHANGED <<cfg, pathVars, procs>>

GetItem(k) ==
    \E r \in {GetItemOutcome(dirs, files, cfg, k)} :
        /\ last' = [op |-> "get", key |-> k, val |-> NoValue, old |-> NoValue, had |-> Contains(dirs, files, k),
                    err |-> r.err, out |-> r.out]
        /\ UNCHANGED <<dirs, files, cfg, shadow, pathVars, procs>>

ContainsItem(k) ==
    /\ last' = [op |-> "contains", key |-> k, val |-> NoValue,
                old |-> NoValue, had |-> Contains(dirs, files, k), err |-> "ok",
                out |-> IF Contains(dirs, files, k) THEN 1 ELSE 0]
    /\ UNCHANGED <<dirs, files, cfg, shadow, pathVars, procs>>

DelItem(k) ==
    \E r \in {DelItemOutcome(dirs, files, k)} :
        /\ dirs' = r.dirs
        /\ files' = r.files
        /\ last' = [op |-> "del", key |-> k, val |-> NoValue, old |-> NoValue, had |-> Contains(dirs, files, k),
                    err |-> r.err, out |-> NoValue]
        /\ shadow' = IF r.err = "KeyError" THEN shadow ELSE [shadow EXCEPT ![k] = NoValue]
        /\ UNCHANGED <<cfg, pathVars, procs>>

Clear ==
    \E r \in {ClearOutcome(dirs, files)} :
        /\ dirs' = r.dirs
        /\ files' = r.files
        /\ last' = [op |-> "clear", key |-> NoKey, val |-> NoValue,
                    old |-> NoValue, had |-> Size(dirs, files) > 0, err |-> r.err, out |-> NoValue]
        /\ shadow' = [k \in Keys |-> NoValue]
        /\ UNCHANGED <<cfg, pathVars, procs>>

\* iterate() consumed to the end; out counts the yields.
IterKeys ==
    /\ last' = [op |-> "keys", key |-> NoKey, val |-> NoValue, old |-> NoValue, had |-> FALSE,
                err |-> "ok", out |-> BagCardinality(KeysYield(dirs, files))]
    /\ UNCHANGED <<dirs, files, cfg, shadow, pathVars, procs>>

Next ==
    \/ \E k \in Keys, v \in Values : SetItem(k, v)
    \/ \E k \in Keys : GetItem(k)
    \/ \E k \in Keys : ContainsItem(k)
    \/ \E k \in Keys : DelItem(k)
    \/ Clear
    \/ IterKeys

Spec == Init /\ [][Next]_vars

(* ---------------- specification of concurrent callers ------------------ *)

\* The tree after set(k, 0) for every key of S, one after the other.
RECURSIVE TreeAfterSets(_, _, _, _)
TreeAfterSets(S, D, F, c) ==
    IF S = {} THEN [dirs |-> D, files |-> F]
    ELSE Eval(CHOOSE k \in S : TRUE, LAMBDA k :
            Eval(SetItemOutcome(D, F, c, k, 0), LAMBDA r :
                TreeAfterSets(S \ {k}, r.dirs, r.files, c)))

\* Two callers share a root that holds the entries of some keys; shadow
\* records the mapping they start from.
ConcInit ==
    /\ PathIdle
    /\ cfg = [compress |-> FALSE, b64 |-> FALSE]
    /\ \E S \in SUBSET Keys :
        /\ \E t \in {TreeAfterSets(S, Prefixes(RootParts), NoFiles, cfg)} :
            /\ dirs = t.dirs
            /\ files = t.files
        /\ shadow = [k \in Keys |-> IF k \in S THEN 0 ELSE NoValue]
    /\ last = NoOp
    /\ procs = NoProcs

Me(p) == procs[p]

Goto(p, rec) ==
    /\ procs' = [procs EXCEPT ![p] = rec]
    /\ UNCHANGED <<cfg, last, shadow, pathVars>>

Raise(p, e) ==
    /\ Goto(p, [Me(p) EXCEPT !.pc = "done", !.err = e])
    /\ UNCHANGED <<dirs, files>>

\* __delitem__ is called: filepath = self._encode_filepath(key)
StartDel(p, k) ==
    /\ Me(p).pc = "idle"
    /\ Goto(p, [Me(p) EXCEPT !.pc = "del_exists", !.op = "del", !.key = k])
    /\ UNCHANGED <<dirs, files>>

\* if not os.path.exists(filepath): raise KeyError(key)
DelExists(p) ==
    /\ Me(p).pc = "del_exists"
    /\ IF Exists(dirs, files, Filepath(Me(p).key))
       THEN /\ Goto(p, [Me(p) EXCEPT !.pc = "del_remove"])
            /\ UNCHANGED <<dirs, files>>
       ELSE Raise(p, "KeyError")

\* while dir_path != self.path
LoopPc(dir_path) == IF dir_path = SelfPath THEN "done" ELSE "del_listdir"

\* os.remove(filepath); dir_path = os.path.dirname(filepath).  A caller
\* that holds the file open keeps a handle to a file no longer in the tree.
DelRemove(p) ==
    /\ Me(p).pc = "del_remove"
    /\ \E fp \in {Filepath(Me(p).key)} : \E r \in {RemoveFile(dirs, files, fp)} :
        IF r.err # "ok" THEN Raise(p, r.err)
        ELSE /\ files' = r.files
             /\ dirs' = dirs
             /\ procs' = [q \in Procs |->
                    IF q = p
                    THEN [Me(p) EXCEPT !.cur = DirOf(fp), !.pc = LoopPc(DirOf(fp))]
                    ELSE IF procs[q].pc = "set_write" /\ Filepath(procs[q].key) = fp
                    THEN [procs[q] EXCEPT !.fd = FALSE]
                    ELSE procs[q]]
             /\ UNCHANGED <<cfg, last, shadow, pathVars>>

\* if not os.listdir(dir_path): ... else: break
DelListdir(p) ==
    /\ Me(p).pc = "del_listdir"
    /\ \E P \in {PartsOf(Me(p).cur)} :
        IF P \in DOMAIN files THEN Raise(p, "NotADirectoryError")
        ELSE IF P \notin dirs THEN Raise(p, "FileNotFoundError")
        ELSE /\ Goto(p, [Me(p) EXCEPT !.pc =
                    IF Children(dirs, files, P) = {} THEN "del_rmdir" ELSE "done"])
             /\ UNCHANGED <<dirs, files>>

\* shutil.rmtree(dir_path) in place of os.rmdir: the directory goes with
\* whatever it holds.
DelRmdirForce(p) ==
    /\ Me(p).pc = "del_rmdir"
    /\ \E P \in {PartsOf(Me(p).cur)} :
        IF P \in DOMAIN files THEN Raise(p, "NotADirectoryError")
        ELSE IF P \notin dirs THEN Raise(p, "FileNotFoundError")
        ELSE /\ dirs' = {d \in dirs : ~IsPrefix(P, d)}
             /\ files' = [f \in {g \in DOMAIN files : ~IsPrefix(P, g)} |-> files[f]]
             /\ Goto(p, [Me(p) EXCEPT !.cur = DirOf(Me(p).cur),
                                      !.pc = LoopPc(DirOf(Me(p).cur))])

\* os.rmdir(dir_path); dir_path = os.path.dirname(dir_path)
DelRmdir(p) ==
    /\ Me(p).pc = "del_rmdir"
    /\ \E P \in {PartsOf(Me(p).cur)} :
        IF P \in DOMAIN files THEN Raise(p, "NotADirectoryError")
        ELSE IF P \notin dirs THEN Raise(p, "FileNotFoundError")
        ELSE IF Children(dirs, files, P) # {} THEN Raise(p, "OSError")
        ELSE /\ dirs' = dirs \ {P}
             /\ files' = files
             /\ Goto(p, [Me(p) EXCEPT !.cur = DirOf(Me(p).cur),
                                      !.pc = LoopPc(DirOf(Me(p).cur))])

\* __setitem__ is called: os.makedirs(os.path.dirname(filepath), exist_ok=True)
StartSet(p, k, v) ==
    /\ Me(p).pc = "idle"
    /\ Goto(p, [Me(p) EXCEPT !.pc = "set_scan", !.op = "set", !.key = k, !.val = v,
                             !.cur = DirOf(Filepath(k)), !.todo = <<>>])
    /\ UNCHANGED <<dirs, files>>

\* os.makedirs(name): head, tail = split(name); if head and tail and not
\* exists(head): makedirs(head).  todo lists the names whose mkdir is
\* pending, innermost call first.
SetScan(p) ==
    /\ Me(p).pc = "set_scan"
    /\ \E name \in {Me(p).cur} : \E head \in {DirOf(name)} :
        /\ IF head # <<>> /\ PartsOf(name) # <<>> /\ ~Exists(dirs, files, head)
           THEN Goto(p, [Me(p) EXCEPT !.todo = <<name>> \o @, !.cur = head])
           ELSE Goto(p, [Me(p) EXCEPT !.todo = <<name>> \o @, !.pc = "set_mkdir"])
        /\ UNCHANGED <<dirs, files>>

\* Where a caller goes once the mkdir at the head of todo is dealt with:
\* when os.makedirs returns, __setitem__ opens the file and clear returns.
AfterMkdir(rec) ==
    [rec EXCEPT !.todo = Tail(@), !.err = "ok",
                !.pc = IF Len(rec.todo) > 1 THEN "set_mkdir"
                       ELSE IF rec.op = "clear" THEN "done" ELSE "set_open"]

\* mkdir(name, mode) inside os.makedirs
SetMkdir(p) ==
    /\ Me(p).pc = "set_mkdir"
    /\ \E P \in {PartsOf(Head(Me(p).todo))} :
        IF P \in dirs \cup DOMAIN files
        THEN /\ Goto(p, [Me(p) EXCEPT !.pc = "set_isdir", !.err = "FileExistsError"])
             /\ UNCHANGED <<dirs, files>>
        ELSE IF SubSeq(P, 1, Len(P) - 1) \in DOMAIN files
        THEN /\ Goto(p, [Me(p) EXCEPT !.pc = "set_isdir", !.err = "NotADirectoryError"])
             /\ UNCHANGED <<dirs, files>>
        ELSE IF SubSeq(P, 1, Len(P) - 1) \notin dirs
        THEN /\ Goto(p, [Me(p) EXCEPT !.pc = "set_isdir", !.err = "FileNotFoundError"])
             /\ UNCHANGED <<dirs, files>>
        ELSE /\ dirs' = dirs \cup {P}
             /\ files' = files
             /\ Goto(p, AfterMkdir(Me(p)))

\* os.makedirs without exist_ok: an OSError of mkdir is always raised.
SetIsdirStrict(p) ==
    /\ Me(p).pc = "set_isdir"
    /\ Raise(p, Me(p).err)

\* except OSError: if not exist_ok or not path.isdir(name): raise.  A
\* FileExistsError raised by an inner makedirs is passed over by its caller.
SetIsdir(p) ==
    /\ Me(p).pc = "set_isdir"
    /\ IF IsDir(dirs, Head(Me(p).todo))
          \/ (Me(p).err = "FileExistsError" /\ Len(Me(p).todo) > 1)
       THEN /\ Goto(p, AfterMkdir(Me(p)))
            /\ UNCHANGED <<dirs, files>>
       ELSE Raise(p, Me(p).err)

\* open(filepath, 'ab'): an existing file is opened as it is.
SetOpenKeep(p) ==
    /\ Me(p).pc = "set_open"
    /\ \E fp \in {Filepath(Me(p).key)} :
        \E r \in {WriteFileAppend(dirs, files, fp, <<>>)} :
            IF r.err # "ok" THEN Raise(p, r.err)
            ELSE /\ files' = r.files
                 /\ dirs' = dirs
                 /\ Goto(p, [Me(p) EXCEPT !.pc = "set_write", !.fd = TRUE])

\* open(filepath, 'wb'): the file is created, or truncated, in place.
SetOpen(p) ==
    /\ Me(p).pc = "set_open"
    /\ \E fp \in {Filepath(Me(p).key)} : \E r \in {WriteFile(dirs, files, fp, <<>>)} :
        IF r.err # "ok" THEN Raise(p, r.err)
        ELSE /\ files' = r.files
             /\ dirs' = dirs
             /\ Goto(p, [Me(p) EXCEPT !.pc = "set_write", !.fd = TRUE])

\* f.write(self._encode_value(value)) and close: the bytes go to offset 0
\* of the open file, which may no longer be in the tree.
SetWrite(p) ==
    /\ Me(p).pc = "set_write"
    /\ \E P \in {PartsOf(Filepath(Me(p).key))} : \E data \in {EncodeValue(cfg, Me(p).val)} :
        /\ files' = IF Me(p).fd /\ P \in DOMAIN files
                    THEN [files EXCEPT ![P] = data \o SubSeq(@, Len(data) + 1, Len(@))]
                    ELSE files
        /\ dirs' = dirs
        /\ Goto(p, [Me(p) EXCEPT !.pc = "done", !.fd = FALSE])

\* A directory shutil.rmtree has reached: its listing is taken by os.scandir
\* (scanned), and todo holds the listed entries not yet dealt with.
WalkFrame(P) == [dir |-> P, todo |-> {}, scanned |-> FALSE]

\* clear is called: shutil.rmtree(self.path, ignore_errors=True)
StartClear(p) ==
    /\ Me(p).pc = "idle"
    /\ Goto(p, [Me(p) EXCEPT !.pc = "clr_rmtree", !.op = "clear",
                             !.walk = <<WalkFrame(RootParts)>>])
    /\ UNCHANGED <<dirs, files>>

\* clear without its second statement: the root is not created again.
AfterRmdirOnly(rec) ==
    [rec EXCEPT !.walk = Tail(@),
                !.pc = IF Len(rec.walk) > 1 THEN "clr_rmtree" ELSE "done"]

\* Where clear goes once the directory at the head of walk is dealt with:
\* when rmtree returns, os.makedirs(self.path, exist_ok=True) is called.
AfterRmdir(rec) ==
    [rec EXCEPT !.walk = Tail(@),
                !.pc = IF Len(rec.walk) > 1 THEN "clr_rmtree" ELSE "set_scan",
                !.cur = IF Len(rec.walk) > 1 THEN @ ELSE SelfPath,
                !.todo = <<>>]

\* rmtree: os.scandir of the directory at the head of walk; a directory
\* that is gone is passed over (ignore_errors).
ClrScandir(p) ==
    /\ Me(p).pc = "clr_rmtree"
    /\ ~Head(Me(p).walk).scanned
    /\ \E P \in {Head(Me(p).walk).dir} :
        IF P \in dirs
        THEN Goto(p, [Me(p) EXCEPT !.walk[1] =
                        [dir |-> P, todo |-> Children(dirs, files, P),
                         scanned |-> TRUE]])
        ELSE Goto(p, AfterRmdir(Me(p)))
    /\ UNCHANGED <<dirs, files>>

\* rmtree: one entry of the listing, in any order: a directory is entered,
\* a file is unlinked, an entry that is gone is passed over.
ClrEntry(p) ==
    /\ Me(p).pc = "clr_rmtree"
    /\ Head(Me(p).walk).scanned
    /\ \E e \in Head(Me(p).walk).todo :
        \E rest \in {[Me(p) EXCEPT !.walk[1].todo = @ \ {e}]} :
            IF e \in dirs
            THEN /\ Goto(p, [rest EXCEPT !.walk = <<WalkFrame(e)>> \o @])
                 /\ UNCHANGED <<dirs, files>>
            ELSE IF e \in DOMAIN files
            THEN /\ files' = [f \in DOMAIN files \ {e} |-> files[f]]
                 /\ dirs' = dirs
                 /\ procs' = [q \in Procs |->
                        IF q = p THEN rest
                        ELSE IF procs[q].pc = "set_write"
                                /\ PartsOf(Filepath(procs[q].key)) = e
                        THEN [procs[q] EXCEPT !.fd = FALSE]
                        ELSE procs[q]]
                 /\ UNCHANGED <<cfg, last, shadow, pathVars>>
            ELSE /\ Goto(p, rest)
                 /\ UNCHANGED <<dirs, files>>

\* rmtree: os.rmdir of the directory whose listing is dealt with; a
\* directory that is gone or not empty is left (ignore_errors).
ClrRmdir(p) ==
    /\ Me(p).pc = "clr_rmtree"
    /\ Head(Me(p).walk).scanned
    /\ Head(Me(p).walk).todo = {}
    /\ \E P \in {Head(Me(p).walk).dir} :
        /\ dirs' = IF P \in dirs /\ Children(dirs, files, P) = {}
                   THEN dirs \ {P} ELSE dirs
        /\ files' = files
        /\ Goto(p, AfterRmdir(Me(p)))

ConcNext ==
    \E p \in Procs :
        \/ \E k \in Keys : StartDel(p, k)
        \/ DelExists(p)
        \/ DelRemove(p)
        \/ DelListdir(p)
        \/ DelRmdir(p)
        \/ \E k \in Keys, v \in Values : StartSet(p, k, v)
        \/ SetScan(p)
        \/ SetMkdir(p)
        \/ SetIsdir(p)
        \/ SetOpen(p)
        \/ SetWrite(p)
        \/ StartClear(p)
        \/ ClrScandir(p)
        \/ ClrEntry(p)
        \/ ClrRmdir(p)

SpecConc == ConcInit /\ [][ConcNext]_vars

(* ----------------- specification of the path mapper -------------------- *)

\* The characters synthetic digests are built from: two digest characters,
\* the path separator and the dot.
SynthAlphabet == {"a", "b", SEP, "."}

\* The fixed character set of the key encoder's digests.
HashAlphabet == {"a", "b"}

ShortDigests == UNION {[1..n -> SynthAlphabet] : n \in ShardLen..MaxShortLen}

LongLens == {ShardLen + SegLen - 1, ShardLen + SegLen, ShardLen + SegLen + 1,
             ShardLen + 2 * SegLen, ShardLen + 2 * SegLen + 1, 600}

LongDigest(len, seed) ==
    [i \in 1..len |-> IF (i + seed) % 3 = 0 THEN "a" ELSE "b"]

LongDigests == {LongDigest(len, s) : len \in LongLens, s \in 0..MaxSeed}

SynthDigests == ShortDigests \cup LongDigests

NoStr == <<>>

PathInit ==
    /\ digest \in SynthDigests
    /\ encPath = NoStr
    /\ decKey = NoStr
    /\ ppc = "start"
    /\ dirs = Prefixes(RootParts)
    /\ files = NoFiles
    /\ cfg = [compress |-> FALSE, b64 |-> FALSE]
    /\ last = NoOp
    /\ shadow = [k \in Keys |-> NoValue]
    /\ procs = NoProcs

PathEncode ==
    /\ ppc = "start"
    /\ encPath' = EncodeDigestPath(digest)
    /\ ppc' = "encoded"
    /\ UNCHANGED <<digest, decKey, engineVars, procs>>

PathDecode ==
    /\ ppc = "encoded"
    /\ decKey' = DecodeFilepath(encPath)
    /\ ppc' = "decoded"
    /\ UNCHANGED <<digest, encPath, engineVars, procs>>

\* __setitem__ for the digest, once its path is encoded.  Only digests in
\* the key encoder's character set reach the engine.
PathSet(v) ==
    /\ ppc = "encoded"
    /\ {digest[i] : i \in 1..Len(digest)} \subseteq HashAlphabet
    /\ \E r \in {SetItemAt(dirs, files, encPath, EncodeValue(cfg, v))} :
        /\ dirs' = r.dirs
        /\ files' = r.files
        /\ last' = [NoOp EXCEPT !.op = "set", !.val = v, !.err = r.err]
    /\ ppc' = "stored"
    /\ UNCHANGED <<digest, encPath, decKey, cfg, shadow, procs>>

\* __getitem__ for the digest, after the set.
PathGet ==
    /\ ppc = "stored"
    /\ \E r \in {GetItemAt(dirs, files, cfg, encPath)} :
        last' = [op |-> "get", key |-> NoKey, val |-> last.val, old |-> NoValue,
                 had |-> TRUE, err |-> r.err, out |-> r.out]
    /\ ppc' = "fetched"
    /\ UNCHANGED <<digest, encPath, decKey, dirs, files, cfg, shadow, procs>>

PathNext ==
    \/ PathEncode
    \/ PathDecode
    \/ \E v \in Values : PathSet(v)
    \/ PathGet

SpecPath == PathInit /\ [][PathNext]_vars

(* ------------------------------ properties ----------------------------- *)

Present == {k \in Keys : shadow[k] # NoValue}

KeyPartsTable == [k \in Keys |-> PartsOf(Filepath(k))]

\* The components of the path of key k's entry.
KeyParts(k) == KeyPartsTable[k]

KeyDirsTable ==
    [k \in Keys |->
        {SubSeq(KeyPartsTable[k], 1, n) :
            n \in (Len(RootParts) + 1)..(Len(KeyPartsTable[k]) - 1)}]

\* The directories strictly between the root and the entry of key k.
KeyDirs(k) == KeyDirsTable[k]

ShardOf(k) == Take(EncodeKey(k), ShardLen)

\* C1: in every state reached by a set(key, value), under every codec
\* configuration, the set succeeded and get(key) returns exactly value.
RoundTrip ==
    last.op = "set" =>
        /\ last.err = "ok"
        /\ GetItemOutcome(dirs, files, cfg, last.key) = [err |-> "ok", out |-> last.val]

\* A set that overwrote an entry, with compression and text-safe encoding
\* on, while another entry exists.
RoundTripWitness ==
    /\ last.op = "set"
    /\ last.had
    /\ last.val = 1
    /\ cfg.compress
    /\ cfg.b64
    /\ Cardinality(DOMAIN files) >= 2

\* C2: every key that was never set, or whose last operation was a delete
\* or a clear, is not contained and get fails with KeyError; and contains
\* is true exactly when something exists at the key's cache path.
Absence ==
    \A k \in Keys :
        /\ k \notin Present =>
            /\ ~Contains(dirs, files, k)
            /\ GetItemOutcome(dirs, files, cfg, k).err = "KeyError"
        /\ Contains(dirs, files, k) <=> KeyParts(k) \in dirs \cup DOMAIN files

\* A key was deleted while a key in the same directory is still present.
AbsenceWitness ==
    /\ last.op = "del"
    /\ last.err = "ok"
    /\ last.key = 1
    /\ 2 \in Present

\* C3: after delete of a present key the delete has succeeded, the key is
\* not contained, and as long as the key is not set again another delete
\* fails with KeyError.
DeleteLaw ==
    /\ (last.op = "del" /\ last.had) =>
        /\ last.err = "ok"
        /\ ~Contains(dirs, files, last.key)
    /\ \A k \in Keys :
        k \notin Present => DelItemOutcome(dirs, files, k).err = "KeyError"

\* A second delete of a key, failing, after the first one succeeded.
DeleteLawWitness ==
    /\ last.op = "del"
    /\ ~last.had
    /\ last.err = "KeyError"
    /\ Present # {}

\* C4: iterate() yields exactly the digest strings of the present entries,
\* each exactly once.
EnumerationComplete ==
    KeysYield(dirs, files) = [d \in {EncodeKey(k) : k \in Present} |-> 1]

\* An enumeration of two or more entries after a delete.
EnumerationWitness ==
    /\ last.op = "keys"
    /\ last.out >= 2
    /\ Present # Keys

\* C7: after a delete, if no remaining entry lives under the deleted
\* entry's shard, nothing but the root is left of its former path; and
\* every remaining entry is still there with all its ancestor directories.
DirectoryHygiene ==
    (last.op = "del" /\ last.err = "ok") =>
        /\ (\A k \in Present : ShardOf(k) # ShardOf(last.key)) =>
            /\ RootParts \in dirs
            /\ KeyDirs(last.key) \cap dirs = {}
            /\ KeyParts(last.key) \notin dirs \cup DOMAIN files
        /\ \A k \in Present :
            /\ KeyDirs(k) \subseteq dirs
            /\ GetItemOutcome(dirs, files, cfg, k) = [err |-> "ok", out |-> shadow[k]]

\* Key 3 was deleted: its own segment directory is gone, while key 1, in the
\* same shard, is still present.
DirectoryHygieneWitness ==
    /\ last.op = "del"
    /\ last.err = "ok"
    /\ last.key = 3
    /\ 1 \in Present
    /\ KeyDirs(3) \cap dirs # {}
    /\ ~(KeyDirs(3) \subseteq dirs)

\* C8: after clear() the root directory exists and is empty, iterate()
\* yields nothing and size() is 0.
ClearComplete ==
    last.op = "clear" =>
        /\ last.err = "ok"
        /\ RootParts \in dirs
        /\ Children(dirs, files, RootParts) = {}
        /\ KeysYield(dirs, files) = EmptyBag
        /\ Size(dirs, files) = 0

\* A clear of a cache that held entries.
ClearCompleteWitness ==
    /\ last.op = "clear"
    /\ last.had

\* The digests the key encoder's character set allows: no path separator.
IsDigestString(d) == \A i \in 1..Len(d) : d[i] # SEP

Concat(ss) == StripSlashes(JoinSlash(ss))

\* C5: decoding the path produced by encoding a digest of length >= 2, of
\* whatever characters, returns the digest.
PathInverseLaw ==
    (ppc = "decoded" /\ Len(digest) >= ShardLen) => decKey = digest

Done(p) == procs[p].pc = "done"

SameParent(k1, k2) == DirOf(Filepath(k1)) = DirOf(Filepath(k2))

\* C9: when two callers concurrently delete two distinct present keys whose
\* entries share the parent directory, both deletes end without error.
ConcurrentDeletesSucceed ==
    \A p, q \in Procs :
        (/\ p # q
         /\ Done(p) /\ procs[p].op = "del"
         /\ Done(q) /\ procs[q].op = "del"
         /\ procs[p].key # procs[q].key
         /\ shadow[procs[p].key] # NoValue
         /\ shadow[procs[q].key] # NoValue
         /\ SameParent(procs[p].key, procs[q].key))
        => procs[p].err = "ok"

\* C10: when a delete of a present key runs concurrently with a set of a
\* distinct key whose entry lives in the same parent directory, the delete
\* ends without error.
DeleteToleratesSet ==
    \A p, q \in Procs :
        (/\ p # q
         /\ Done(p) /\ procs[p].op = "del"
         /\ procs[q].op = "set"
         /\ procs[p].key # procs[q].key
         /\ shadow[procs[p].key] # NoValue
         /\ SameParent(procs[p].key, procs[q].key))
        => procs[p].err = "ok"

\* C11: when two callers concurrently set two distinct keys (whose paths
\* may share directories that do not exist yet), each set ends without
\* error and its entry is present with its own value.
ConcurrentSetsSucceed ==
    \A p, q \in Procs :
        (/\ p # q
         /\ Done(p) /\ procs[p].op = "set"
         /\ procs[q].op = "set"
         /\ procs[p].key # procs[q].key)
        => /\ procs[p].err = "ok"
           /\ GetItemOutcome(dirs, files, cfg, procs[p].key)
                = [err |-> "ok", out |-> procs[p].val]

\* Both callers have set keys 1 and 2, which share the shard and the segment
\* directory, starting from an empty root.
ConcurrentSetsWitness ==
    /\ Present = {}
    /\ \A p \in Procs : Done(p) /\ procs[p].op = "set" /\ procs[p].key = p
    /\ Contains(dirs, files, 1)
    /\ Contains(dirs, files, 2)

\* The directories strictly below the root.
InnerDirs == {d \in dirs : IsPrefix(RootParts, d) /\ d # RootParts}

\* C12: in every state reached by sequential set, delete and clear
\* operations, every directory below the root other than the root itself
\* has at least one cache entry somewhere in its subtree.
NoEmptyDirectories ==
    \A d \in InnerDirs : \E f \in DOMAIN files : IsPrefix(d, f) /\ f # d

\* A delete has pruned some directories and left others in place, which
\* still hold an entry.
NoEmptyDirectoriesWitness ==
    /\ last.op = "del"
    /\ last.err = "ok"
    /\ InnerDirs # {}
    /\ KeyDirs(last.key) \cap dirs # KeyDirs(last.key)

\* Some caller is inside clear().
ClearInProgress == \E p \in Procs : procs[p].op = "clear" /\ ~Done(p)

\* C13: under every interleaving of set, delete and clear, the root
\* directory exists whenever no clear is in progress; the directory a
\* delete lists or removes is always strictly below the root; and once a
\* delete has removed the last entry, with no other call under way, the
\* root exists and is empty.
RootPreserved ==
    /\ ~ClearInProgress => RootParts \in dirs
    /\ \A p \in Procs :
        procs[p].pc \in {"del_listdir", "del_rmdir"} =>
            \E P \in {PartsOf(procs[p].cur)} :
                IsPrefix(RootParts, P) /\ P # RootParts
    /\ \A p \in Procs :
        (/\ Done(p) /\ procs[p].op = "del" /\ procs[p].err = "ok"
         /\ DOMAIN files = {}
         /\ \A q \in Procs \ {p} : procs[q].pc \in {"idle", "done"})
        => /\ RootParts \in dirs
           /\ Children(dirs, files, RootParts) = {}

\* A delete and a clear have both run to their end, and the root is there.
RootPreservedWitness ==
    /\ \E p, q \in Procs :
        /\ Done(p) /\ procs[p].op = "del" /\ procs[p].err = "ok"
        /\ Done(q) /\ procs[q].op = "clear"
    /\ RootParts \in dirs

\* C14: a set on a key that already has an entry succeeds and leaves
\* exactly one entry for the key, holding the encoding of the new value
\* and nothing of the old one (also when the new encoding is shorter);
\* get returns the new value; iterate() and size() are as before the set.
OverwriteReplaces ==
    [][(last'.op = "set" /\ last'.had) =>
        /\ last'.err = "ok"
        /\ files'[KeyParts(last'.key)] = EncodeValue(cfg, last'.val)
        /\ GetItemOutcome(dirs', files', cfg, last'.key)
             = [err |-> "ok", out |-> last'.val]
        /\ \E yielded \in {KeysYield(dirs', files')} :
            /\ CopiesIn(EncodeKey(last'.key), yielded) = 1
            /\ yielded = KeysYield(dirs, files)
        /\ Size(dirs', files') = Size(dirs, files)]_vars

\* A value was set over a value whose encoding is longer.
OverwriteWitness ==
    /\ last.op = "set"
    /\ last.had
    /\ last.err = "ok"
    /\ last.old # NoValue
    /\ Len(EncodeValue(cfg, last.val)) < Len(EncodeValue(cfg, last.old))

\* C15: a get or a delete on a key that has no entry fails with KeyError
\* and leaves the tree as it was: no directory is created or pruned.
MissingKeyNoEffect ==
    [][(last'.op \in {"get", "del"} /\ ~last'.had) =>
        /\ last'.err = "KeyError"
        /\ dirs' = dirs
        /\ files' = files]_vars

\* A delete failed on a missing key whose directories are all there, kept
\* by the entry of another key.
MissingKeyWitness ==
    /\ last.op = "del"
    /\ last.err = "KeyError"
    /\ ~last.had
    /\ KeyDirs(last.key) \subseteq dirs

\* C16: for a digest of exactly 2 characters there are zero segments and
\* the encoded path is the root joined with the shard, which names the
\* file; a set on such a key succeeds, and the get after it returns the
\* value.
ShortDigestSetGet ==
    (Len(digest) = ShardLen /\ IsDigestString(digest)) =>
        /\ ppc # "start" =>
            /\ Chunks(Drop(digest, ShardLen)) = <<>>
            /\ Parts(encPath) = RootParts \o <<digest>>
        /\ ppc = "stored" =>
            /\ last.err = "ok"
            /\ Parts(encPath) \in DOMAIN files
        /\ ppc = "fetched" =>
            /\ last.err = "ok"
            /\ last.out = last.val

\* C17: while a set has opened the key's file and not yet written, and no
\* other set works on the same key, the entry is there (contains is true),
\* its content is neither the encoding of the previous value nor of the
\* new one, and get fails with DecodeFailed: not with KeyError, and not
\* returning the previous value.
InterruptedSetCorrupt ==
    \A p \in Procs :
        (/\ procs[p].pc = "set_write"
         /\ procs[p].fd
         /\ \A q \in Procs \ {p} :
                ~(procs[q].op = "set" /\ procs[q].key = procs[p].key))
        => \E k \in {procs[p].key} :
            /\ Contains(dirs, files, k)
            /\ files[KeyParts(k)] # EncodeValue(cfg, procs[p].val)
            /\ shadow[k] # NoValue =>
                 files[KeyParts(k)] # EncodeValue(cfg, shadow[k])
            /\ GetItemOutcome(dirs, files, cfg, k) = DecodeFailed

\* A set on a key that had a value has opened the file and not yet
\* written; the other caller has not started.
InterruptedSetWitness ==
    \E p \in Procs :
        /\ procs[p].pc = "set_write"
        /\ procs[p].fd
        /\ shadow[procs[p].key] # NoValue
        /\ \A q \in Procs \ {p} : procs[q].pc = "idle"

\* C18: a set or a delete of key k changes only k's entry and directories
\* on k's path: for every other key, contains and the outcome of get are
\* the same before and after, files of other keys are untouched, and the
\* directories of every other present key stay, also when the keys share
\* the shard or a segment directory.
FrameOtherKeys ==
    [][last'.op \in {"set", "del"} =>
        /\ \A k2 \in Keys \ {last'.key} :
            /\ Contains(dirs', files', k2) = Contains(dirs, files, k2)
            /\ GetItemOutcome(dirs', files', cfg, k2)
                 = GetItemOutcome(dirs, files, cfg, k2)
            /\ Contains(dirs, files, k2) => KeyDirs(k2) \subseteq dirs'
        /\ \A f \in (DOMAIN files \cup DOMAIN files') \ {KeyParts(last'.key)} :
            /\ f \in DOMAIN files \cap DOMAIN files'
            /\ files'[f] = files[f]
        /\ \A d \in (dirs \ dirs') \cup (dirs' \ dirs) : d \in KeyDirs(last'.key)
      ]_vars

\* A key was deleted while another key in the same segment directory has
\* an entry.
FrameWitness ==
    /\ last.op = "del"
    /\ last.err = "ok"
    /\ \E k2 \in Present : k2 # last.key /\ SameParent(k2, last.key)

\* C19: when a set of key k2 runs concurrently with a delete of another
\* key and the set ends without error, then once both have ended k2's
\* entry is present with the value set; and in every state every file in
\* the tree has its directory: pruning never removes a directory that
\* holds a file.
NoLostWrite ==
    /\ \A p, q \in Procs :
        (/\ Done(p) /\ procs[p].op = "set" /\ procs[p].err = "ok"
         /\ Done(q) /\ procs[q].op = "del"
         /\ procs[q].key # procs[p].key)
        => GetItemOutcome(dirs, files, cfg, procs[p].key)
             = [err |-> "ok", out |-> procs[p].val]
    /\ \A f \in DOMAIN files : SubSeq(f, 1, Len(f) - 1) \in dirs

\* A set of a new key and a delete of an existing key in the same segment
\* directory have both ended, the set without error.
NoLostWriteWitness ==
    \E p, q \in Procs :
        /\ Done(p) /\ procs[p].op = "set" /\ procs[p].err = "ok"
        /\ Done(q) /\ procs[q].op = "del" /\ procs[q].err # "KeyError"
        /\ procs[q].key # procs[p].key
        /\ SameParent(procs[p].key, procs[q].key)
        /\ shadow[procs[p].key] = NoValue
        /\ shadow[procs[q].key] # NoValue

====
